---- MODULE Spec2Model ----
(***************************************************************************)
(* Injury-risk estimation engine of cars316: the feature hasher, the       *)
(* online logistic-regression trainer, the predictor and the greedy        *)
(* risk-chain search (src/unnamed/part_002, lines 431-666).                *)
(*                                                                         *)
(* Representation of JavaScript values:                                    *)
(*   - a nullable value is a tagged record: Null, Str(s), Num(n);          *)
(*   - a string is a TLA+ string; its UTF-16 code units, which hashStr     *)
(*     reads with charCodeAt, are given by CharCodes;                      *)
(*   - a Float64 number is a fixed-point integer in units of 1/ONE, and    *)
(*     the Float64 value NaN is the integer NaN outside every range the    *)
(*     computation reaches;                                                *)
(*   - the integer h of hashStr exceeds 32 bits, so it is kept as a pair   *)
(*     <<hi, lo>> with h = hi * 65536 + lo and 0 <= lo < 65536.            *)
(***************************************************************************)
EXTENDS Integers, Sequences, FiniteSets, TLC

VARIABLES
    rows,       \* the record set (analysisData)
    dimension,  \* the argument D of trainEstimator
    estModel,   \* the module's estModel: Null or the trained model
    pc,         \* "idle", the function that is running ("train", "chain"),
                \* or "returned" while the caller holds the value returned
    ep, i, w, b,                \* trainEstimator: loop counters, weights, bias
    direction, opts, domains,   \* greedyChain: arguments
    steps, sel, pCurr, d,       \* greedyChain: locals
    ret,        \* the call that returned last, with its value
    hashKey, hashD,             \* hashStr: the code units of s, and D
    query,                      \* featureIndices: the argument choice
    estimatorOutput,            \* the text of #estimator-output (Null: no such element)
    chainsContainer,            \* the content of #viz-chains (Null: no such element)
    now,                        \* the time since the page was opened, in ms
    timers,                     \* the pending timers of setTimeout: [id, due]
    debounceT,                  \* the variable t of debounce: Null or a timer id
    resizes,                    \* the number of resize events so far
    lastResize,                 \* the time of the latest resize event, or Null
    maps, dotLayers, legends,   \* leafletMap.js: the three Maps, by container id
    mapsCreated,                \* the L.map instances created so far, by container id
    mapLayers, mapControls,     \* the layers and controls attached to the map of an id
    calls,                      \* the number of calls of renderLeafletNYC so far
    lastCall                    \* the arguments of the latest call, by container id

(***************************************************************************)
(* JavaScript values                                                       *)
(***************************************************************************)
Null == [t |-> "null"]
Str(s) == [t |-> "str", v |-> s]
Num(n) == [t |-> "num", v |-> n]

IsNull(x) == x.t = "null"
\* Number.isFinite(x): a number (never a string or null) that is finite
IsFiniteNum(x) == x.t = "num"
\* truthiness of a nullable string: non-null and non-empty
Truthy(x) == x.t = "str" /\ x.v # ""

\* Fixed-point unit: the Float64 value 1.0
ONE == 1000000
\* The Float64 value NaN
NaN == 2000000000

FAdd(x, y) == IF x = NaN \/ y = NaN THEN NaN ELSE x + y
FSub(x, y) == IF x = NaN \/ y = NaN THEN NaN ELSE x - y
\* Math.max and Math.min return NaN when an argument is NaN
MathMax(x, y) == IF x = NaN \/ y = NaN THEN NaN ELSE IF x >= y THEN x ELSE y
MathMin(x, y) == IF x = NaN \/ y = NaN THEN NaN ELSE IF x <= y THEN x ELSE y

(***************************************************************************)
(* Strings: code units and number formatting                               *)
(***************************************************************************)
\* s.charCodeAt(i) for the strings of the model, as the sequence of units
CharCodes(s) ==
    CASE s = "" -> <<>>
      [] s = "veh" -> <<118, 101, 104>>
      [] s = "act" -> <<97, 99, 116>>
      [] s = "bor" -> <<98, 111, 114>>
      [] s = "hour" -> <<104, 111, 117, 114>>
      [] s = "dow" -> <<100, 111, 119>>
      [] s = "actxhour" -> <<97, 99, 116, 120, 104, 111, 117, 114>>
      [] s = "actxdow" -> <<97, 99, 116, 120, 100, 111, 119>>
      [] s = "vehxact" -> <<118, 101, 104, 120, 97, 99, 116>>
      [] s = "Sedan" -> <<83, 101, 100, 97, 110>>
      [] s = "Truck" -> <<84, 114, 117, 99, 107>>
      [] s = "Taxi" -> <<84, 97, 120, 105>>
      [] s = "Turn" -> <<84, 117, 114, 110>>
      [] s = "Merge" -> <<77, 101, 114, 103, 101>>
      [] s = "Bronx" -> <<66, 114, 111, 110, 120>>
      [] s = "Queens" -> <<81, 117, 101, 101, 110, 115>>
      [] s = "Unspecified" -> <<85, 110, 115, 112, 101, 99, 105, 102, 105, 101, 100>>

\* String(n) for a non-negative integer n: its decimal digits
DecStr(n) ==
    LET Digits[k \in Nat] == IF k < 10 THEN <<48 + k>> ELSE Digits[k \div 10] \o <<48 + (k % 10)>>
    IN Digits[n]

(***************************************************************************)
(* hashStr (lines 435-440)                                                 *)
(***************************************************************************)
B16 == 65536

\* (h << 5): ToInt32(h), shifted left by 5 and wrapped to a signed 32-bit
\* integer; h and the result are <<hi, lo>> pairs
Shl5(h) ==
    LET lo32 == h[2] * 32
        lo == lo32 % B16
        hiU == ((h[1] % B16) * 32 + (lo32 \div B16)) % B16
        hi == IF hiU >= 32768 THEN hiU - B16 ELSE hiU
    IN <<hi, lo>>

\* x + y + c for pairs x, y and a code unit c
PairAdd(x, y, c) ==
    LET lo == x[2] + y[2] + c
    IN <<x[1] + y[1] + (lo \div B16), lo % B16>>

\* Math.abs
PairAbs(h) ==
    IF h[1] >= 0 THEN h
    ELSE IF h[2] = 0 THEN <<-h[1], 0>> ELSE <<-h[1] - 1, B16 - h[2]>>

\* h % D of JavaScript: the remainder has the sign of the dividend
PairRem(h, D) ==
    LET a == PairAbs(h)
        m == (((a[1] % D) * (B16 % D)) + a[2]) % D
    IN IF h[1] < 0 THEN -m ELSE m

\* the loop body: h = ((h << 5) + h) + s.charCodeAt(i)
HashStep(h, c) == PairAdd(Shl5(h), h, c)

\* h when the loop of line 437 ends, on the code units of s: H[n] is h after
\* n passes
hashLoop(codes) ==
    LET H[n \in 0..Len(codes)] ==
            IF n = 0 THEN <<0, 5381>>
            ELSE CHOOSE r \in {HashStep(h, codes[n]) : h \in {H[n - 1]}} : TRUE
    IN H[Len(codes)]

\* mutant: the Math.abs of line 438 is missing
hashStrNoAbs(codes, D) == PairRem(hashLoop(codes), D)

\* hashStr(s, D) on the code units of s
hashStr(codes, D) == PairRem(PairAbs(hashLoop(codes)), D)

\* `${k}=${v}` (line 445)
KeyCodes(k, vcodes) == CharCodes(k) \o <<61>> \o vcodes

\* v1 + '×' + v2 (lines 455-457)
Cross(c1, c2) == c1 \o <<215>> \o c2

\* the hash dimensions the estimator is trained with: the default of line 461
\* and a small one, where keys collide
Dims == {1024, 4}

(***************************************************************************)
(* featureIndices (lines 441-459)                                          *)
(***************************************************************************)
Fields == <<"vehicleType", "preCrash", "borough", "hour", "dow">>

\* choice.f || '' for a nullable string field
OrEmpty(x) == IF Truthy(x) THEN x.v ELSE ""

\* add(k, v) on the code units of v: the set of indices it adds to idx
Add(k, vcodes, D) ==
    IF vcodes = <<>> \/ vcodes = CharCodes("Unspecified") THEN {}
    ELSE {hashStr(KeyCodes(k, vcodes), D)}

\* the keys add is called with and does not drop (lines 444-445, 448-457),
\* as code units
featureKeys(choice) ==
    LET veh == CharCodes(OrEmpty(choice.vehicleType))
        act == CharCodes(OrEmpty(choice.preCrash))
        bor == CharCodes(OrEmpty(choice.borough))
        hasH == IsFiniteNum(choice.hour)
        hasD == IsFiniteNum(choice.dow)
        Kept(k, vcodes) ==
            IF vcodes = <<>> \/ vcodes = CharCodes("Unspecified") THEN {}
            ELSE {KeyCodes(k, vcodes)}
    IN Kept("veh", veh) \cup Kept("act", act) \cup Kept("bor", bor)
       \cup (IF hasH THEN Kept("hour", DecStr(choice.hour.v)) ELSE {})
       \cup (IF hasD THEN Kept("dow", DecStr(choice.dow.v)) ELSE {})
       \cup (IF Truthy(choice.preCrash) /\ hasH
             THEN Kept("actxhour", Cross(act, DecStr(choice.hour.v))) ELSE {})
       \cup (IF Truthy(choice.preCrash) /\ hasD
             THEN Kept("actxdow", Cross(act, DecStr(choice.dow.v))) ELSE {})
       \cup (IF Truthy(choice.vehicleType) /\ Truthy(choice.preCrash)
             THEN Kept("vehxact", Cross(veh, act)) ELSE {})

\* mutant: the label of an injured record is a feature ("inj=1")
featureIndicesWithLabel(choice, D) ==
    LET idx == {hashStr(k, D) : k \in featureKeys(choice)}
    IN IF "injured" \in DOMAIN choice /\ choice.injured
       THEN idx \cup {hashStr(<<105, 110, 106, 61, 49>>, D)}
       ELSE idx

\* the index set idx the function returns (a Set: an index is held once)
featureIndices(choice, D) ==
    LET veh == CharCodes(OrEmpty(choice.vehicleType))
        act == CharCodes(OrEmpty(choice.preCrash))
        bor == CharCodes(OrEmpty(choice.borough))
        hasH == IsFiniteNum(choice.hour)
        hasD == IsFiniteNum(choice.dow)
    IN Add("veh", veh, D) \cup Add("act", act, D) \cup Add("bor", bor, D)
       \cup (IF hasH THEN Add("hour", DecStr(choice.hour.v), D) ELSE {})
       \cup (IF hasD THEN Add("dow", DecStr(choice.dow.v), D) ELSE {})
       \cup (IF Truthy(choice.preCrash) /\ hasH
             THEN Add("actxhour", Cross(act, DecStr(choice.hour.v)), D) ELSE {})
       \cup (IF Truthy(choice.preCrash) /\ hasD
             THEN Add("actxdow", Cross(act, DecStr(choice.dow.v)), D) ELSE {})
       \cup (IF Truthy(choice.vehicleType) /\ Truthy(choice.preCrash)
             THEN Add("vehxact", Cross(veh, act), D) ELSE {})

(***************************************************************************)
(* Float64 arithmetic in fixed point                                       *)
(***************************************************************************)
\* x * y in units of 1/ONE, both factors split in thousands
FMul(x, y) ==
    IF x = NaN \/ y = NaN THEN NaN
    ELSE LET xh == x \div 1000
             xl == x % 1000
             yh == y \div 1000
             yl == y % 1000
         IN xh * yh + ((xh * yl + xl * yh + ((xl * yl) \div 1000)) \div 1000)

\* 1 / (1 + Math.exp(-z)) at z = -15, -14.75, ..., 15
SigTable ==
<<
    0, 0, 1, 1, 1, 1, 1, 2,
    2, 3, 4, 5, 6, 8, 10, 13,
    17, 21, 28, 35, 45, 58, 75, 96,
    123, 158, 203, 261, 335, 431, 553, 710,
    911, 1170, 1501, 1927, 2473, 3173, 4070, 5220,
    6693, 8577, 10987, 14064, 17986, 22977, 29312, 37327,
    47426, 60087, 75858, 95349, 119203, 148047, 182426, 222700,
    268941, 320821, 377541, 437823, 500000, 562177, 622459, 679179,
    731059, 777300, 817574, 851953, 880797, 904651, 924142, 939913,
    952574, 962673, 970688, 977023, 982014, 985936, 989013, 991423,
    993307, 994780, 995930, 996827, 997527, 998073, 998499, 998830,
    999089, 999290, 999447, 999569, 999665, 999739, 999797, 999842,
    999877, 999904, 999925, 999942, 999955, 999965, 999972, 999979,
    999983, 999987, 999990, 999992, 999994, 999995, 999996, 999997,
    999998, 999998, 999999, 999999, 999999, 999999, 999999, 1000000,
    1000000
>>

\* 1 / (1 + Math.exp(-z)) for a number z: the table, interpolated linearly
Logistic(z) ==
    LET off == z + 15 * ONE
        q == off \div 250000
        r == off % 250000
    IN IF off <= 0 THEN SigTable[1]
       ELSE IF q >= 120 THEN SigTable[121]
       ELSE SigTable[q + 1] + (((SigTable[q + 2] - SigTable[q + 1]) * (r \div 250)) \div 1000)

\* sigmoid (line 434): the argument is clamped to [-30, 30] first
sigmoid(z) ==
    LET zc == MathMax(-30 * ONE, MathMin(30 * ONE, z))
    IN IF zc = NaN THEN NaN ELSE Logistic(zc)

\* Math.log(1 + i/64), i = 0..64
LnTable ==
<<
    0, 15504, 30772, 45810, 60625, 75223, 89612, 103797,
    117783, 131576, 145182, 158605, 171850, 184922, 197826, 210565,
    223144, 235566, 247836, 259958, 271934, 283768, 295464, 307025,
    318454, 329753, 340927, 351976, 362905, 373716, 384412, 394994,
    405465, 415828, 426084, 436237, 446287, 456237, 466090, 475846,
    485508, 495077, 504556, 513946, 523248, 532465, 541597, 550647,
    559616, 568505, 577315, 586049, 594707, 603291, 611802, 620240,
    628609, 636907, 645138, 653301, 661398, 669431, 677399, 685304,
    693147
>>

RECURSIVE Log2Floor(_)
Log2Floor(n) == IF n < 2 THEN 0 ELSE 1 + Log2Floor(n \div 2)

RECURSIVE Pow2(_)
Pow2(k) == IF k = 0 THEN 1 ELSE 2 * Pow2(k - 1)

\* Math.log(n) for an integer 1 <= n < 2^20: n = m * 2^k with 1 <= m < 2
LnInt(n) ==
    LET k == Log2Floor(n)
        frac == n * Pow2(20 - k) - Pow2(20)
        q == frac \div 16384
        r == frac % 16384
    IN k * LnTable[65] + LnTable[q + 1] + (((LnTable[q + 2] - LnTable[q + 1]) * r) \div 16384)

\* Math.log(num / den) for num, den in units of 1/ONE; the logarithm of a
\* quotient that is not positive is not a finite number
LogRatio(num, den) ==
    IF num <= 0 \/ den <= 0 THEN NaN ELSE LnInt(num) - LnInt(den)

(***************************************************************************)
(* trainEstimator (lines 461-492) and predictEstimator (lines 494-502)     *)
(***************************************************************************)
\* hyperparameters of line 469, in units of 1/ONE
lr0 == 200000
lambda == 1000
epochs == 3
\* the epsilon 1e-6 of line 467
Epsilon == 1

\* w[j] of a Float64Array of length D: undefined outside 0..D-1, and a sum
\* with undefined is NaN
WAt(wts, j) == IF j \in DOMAIN wts THEN wts[j] ELSE NaN

\* z = b + w[idx[0]] + w[idx[1]] + ... (lines 476-478 and 496-497)
RECURSIVE Dot(_, _, _)
Dot(z, wts, idx) ==
    IF idx = {} THEN z
    ELSE LET j == CHOOSE x \in idx : \A y \in idx : x <= y
         IN Dot(FAdd(z, WAt(wts, j)), wts, idx \ {j})

\* d3.sum(rows, r => r.injured ? 1 : 0)
RECURSIVE InjuredTotal(_)
InjuredTotal(rs) ==
    IF rs = <<>> THEN 0 ELSE (IF Head(rs).injured THEN 1 ELSE 0) + InjuredTotal(Tail(rs))

\* mutant: the rate is smoothed by one injured and one uninjured record
baseRateSmoothed(rs) == ((InjuredTotal(rs) + 1) * ONE) \div (Len(rs) + 2)

\* baseRate = injuredTotal / Math.max(1, N) (line 465)
BaseRate(rs) ==
    LET N == Len(rs) IN (InjuredTotal(rs) * ONE) \div (IF N >= 1 THEN N ELSE 1)

\* mutant: a second training starts from the bias of the model in estModel
biasFromModel(baseRate) ==
    IF IsNull(estModel) THEN LogRatio(baseRate + Epsilon, ONE - baseRate + Epsilon)
    ELSE estModel.b

\* mutant: the log-odds is taken without epsilon
initialBiasNoEpsilon(baseRate) == LogRatio(baseRate, ONE - baseRate)

\* b = Math.log((baseRate + 1e-6) / (1 - baseRate + 1e-6)) (line 467)
InitialBias(baseRate) == LogRatio(baseRate + Epsilon, ONE - baseRate + Epsilon)

\* mutant: the learning rate does not decay
learningRateFixed(e) == lr0

\* lr = lr0 / (1 + ep) (line 481)
LearningRate(e) == lr0 \div (1 + e)

\* mutant: the gradient step has the wrong sign
updateAscending(bb, ww, r, e, dim) ==
    LET idx == featureIndices(r, dim)
        z == Dot(bb, ww, idx)
        p == sigmoid(z)
        g == FSub(p, IF r.injured THEN ONE ELSE 0)
        lr == LearningRate(e)
        step == FMul(lr, g)
        keep == ONE - FMul(lr, lambda)
    IN [b |-> FAdd(bb, step),
        w |-> [j \in DOMAIN ww |->
                 IF j \in idx THEN FAdd(FMul(ww[j], keep), step) ELSE ww[j]]]

\* one pass of the body of the inner loop (lines 475-488) over record r:
\* the bias and the weights after it
\* z as a sum that takes a bucket's weight once for every key hashed to it
RECURSIVE DotKeys(_, _, _, _)
DotKeys(z, wts, keys, D) ==
    IF keys = {} THEN z
    ELSE LET k == CHOOSE x \in keys : TRUE
         IN DotKeys(FAdd(z, WAt(wts, hashStr(k, D))), wts, keys \ {k}, D)

\* mutant: the step is applied to every weight
updateAllWeights(bb, ww, r, e, dim) ==
    LET idx == featureIndices(r, dim)
        g == FSub(sigmoid(Dot(bb, ww, idx)), IF r.injured THEN ONE ELSE 0)
        step == FMul(LearningRate(e), g)
        keep == ONE - FMul(LearningRate(e), lambda)
    IN [b |-> FSub(bb, step),
        w |-> [j \in DOMAIN ww |-> FSub(FMul(ww[j], keep), step)]]

Update(bb, ww, r, e, dim) ==
    LET idx == featureIndices(r, dim)
        z == Dot(bb, ww, idx)
        p == sigmoid(z)
        g == FSub(p, IF r.injured THEN ONE ELSE 0)
        lr == LearningRate(e)
        step == FMul(lr, g)
        keep == ONE - FMul(lr, lambda)
    IN [b |-> FSub(bb, step),
        w |-> [j \in DOMAIN ww |->
                 IF j \in idx THEN FSub(FMul(ww[j], keep), step) ELSE ww[j]]]

\* the object of line 491
Model(dim, ww, bb, rate) == [t |-> "model", D |-> dim, w |-> ww, b |-> bb, baseRate |-> rate]

\* mutant: z is returned as it is, without the sigmoid and the clamp
predictNoSigmoid(model, choice) ==
    IF IsNull(model) THEN Null
    ELSE Num(Dot(model.b, model.w, featureIndices(choice, model.D)))

\* mutant: a query without any active feature is answered with null
predictNullOnEmpty(model, choice) ==
    IF IsNull(model) \/ featureIndices(choice, model.D) = {} THEN Null
    ELSE Num(MathMax(0, MathMin(ONE,
             sigmoid(Dot(model.b, model.w, featureIndices(choice, model.D))))))

\* predictEstimator(model, choice): Null, or Num(p)
\* mutant: a bucket's weight is added once for every key hashed to it
predictPerKey(model, choice) ==
    IF IsNull(model) THEN Null
    ELSE LET z == DotKeys(model.b, model.w, featureKeys(choice), model.D)
             p == sigmoid(z)
         IN Num(MathMax(0, MathMin(ONE, p)))

predictEstimator(model, choice) ==
    IF IsNull(model) THEN Null
    ELSE LET idx == featureIndices(choice, model.D)
             z == Dot(model.b, model.w, idx)
             p == sigmoid(z)
         IN Num(MathMax(0, MathMin(ONE, p)))

(***************************************************************************)
(* buildDomains (lines 584-600) and supportCount (lines 602-613)           *)
(***************************************************************************)
SkippedLabels == {"", "Unspecified", "NA", "Unknown"}

\* String.prototype.trim on the strings of the model that carry outer blanks
Trim(str) ==
    CASE str = " " -> ""
      [] str = " Sedan" -> "Sedan"
      [] str = "Truck " -> "Truck"
      [] OTHER -> str

\* (r[key] || '').trim()
Trimmed(r, key) == Trim(OrEmpty(r[key]))

\* the keys of the Map m, in insertion order
RECURSIVE SeenOrder(_, _, _)
SeenOrder(rs, key, acc) ==
    IF rs = <<>> THEN acc
    ELSE LET v == Trimmed(Head(rs), key)
         IN SeenOrder(Tail(rs), key,
                IF v \in SkippedLabels \/ (\E k \in 1..Len(acc) : acc[k] = v)
                THEN acc ELSE Append(acc, v))

\* m.get(v)
RECURSIVE CountOf(_, _, _)
CountOf(rs, key, v) ==
    IF rs = <<>> THEN 0
    ELSE (IF Trimmed(Head(rs), key) = v THEN 1 ELSE 0) + CountOf(Tail(rs), key, v)

\* sort((a, b) => b[1] - a[1]), a stable sort: insertion of x behind every
\* entry whose count is not smaller
\* mutant: x is inserted before the entries of equal count
RECURSIVE insertBeforeTies(_, _, _, _)
insertBeforeTies(sorted, x, rs, key) ==
    IF sorted = <<>> THEN <<x>>
    ELSE IF CountOf(rs, key, Head(sorted)) > CountOf(rs, key, x)
         THEN <<Head(sorted)>> \o insertBeforeTies(Tail(sorted), x, rs, key)
         ELSE <<x>> \o sorted

RECURSIVE InsertByCount(_, _, _, _)
InsertByCount(sorted, x, rs, key) ==
    IF sorted = <<>> THEN <<x>>
    ELSE IF CountOf(rs, key, Head(sorted)) >= CountOf(rs, key, x)
         THEN <<Head(sorted)>> \o InsertByCount(Tail(sorted), x, rs, key)
         ELSE <<x>> \o sorted

RECURSIVE SortByCount(_, _, _, _)
SortByCount(seen, sorted, rs, key) ==
    IF seen = <<>> THEN sorted
    ELSE SortByCount(Tail(seen), InsertByCount(sorted, Head(seen), rs, key), rs, key)

\* mutant: nothing is cut
sliceAll(s, n) == s

\* slice(0, n)
Slice(s, n) == SubSeq(s, 1, IF Len(s) < n THEN Len(s) ELSE n)

\* byCount(arr, key)
byCount(rs, key) == SortByCount(SeenOrder(rs, key, <<>>), <<>>, rs, key)

StrSeq(s) == [k \in 1..Len(s) |-> Str(s[k])]

buildDomains(rs) ==
    [vehicleType |-> StrSeq(Slice(byCount(rs, "vehicleType"), 12)),
     preCrash |-> StrSeq(Slice(byCount(rs, "preCrash"), 12)),
     borough |-> StrSeq(Slice(byCount(rs, "borough"), 6)),
     hour |-> [k \in 1..24 |-> Num(k - 1)],
     dow |-> <<Num(1), Num(2), Num(3), Num(4), Num(5), Num(6), Num(0)>>]

\* mutant: hour and dow are tested for truthiness, so 0 constrains nothing
matchesUnlessZero(r, s) ==
    /\ ~(Truthy(s.vehicleType) /\ r.vehicleType # s.vehicleType)
    /\ ~(Truthy(s.preCrash) /\ r.preCrash # s.preCrash)
    /\ ~(Truthy(s.borough) /\ r.borough # s.borough)
    /\ ~(IsFiniteNum(s.hour) /\ s.hour # Num(0) /\ r.hour # s.hour)
    /\ ~(IsFiniteNum(s.dow) /\ s.dow # Num(0) /\ r.dow # s.dow)

\* the record passes every test of lines 605-609
Matches(r, s) ==
    /\ ~(Truthy(s.vehicleType) /\ r.vehicleType # s.vehicleType)
    /\ ~(Truthy(s.preCrash) /\ r.preCrash # s.preCrash)
    /\ ~(Truthy(s.borough) /\ r.borough # s.borough)
    /\ ~(IsFiniteNum(s.hour) /\ r.hour # s.hour)
    /\ ~(IsFiniteNum(s.dow) /\ r.dow # s.dow)

supportCount(rs, s) == Cardinality({k \in 1..Len(rs) : Matches(rs[k], s)})

(***************************************************************************)
(* greedyChain (lines 615-667)                                             *)
(***************************************************************************)
\* every (field, value) pair in the order of the loops of lines 642-645
RECURSIVE PairsFrom(_, _)
PairsFrom(doms, fi) ==
    IF fi > Len(Fields) THEN <<>>
    ELSE LET f == Fields[fi]
             dom == doms[f]
         IN [k \in 1..Len(dom) |-> [field |-> f, value |-> dom[k]]] \o PairsFrom(doms, fi + 1)

EmptySel == [vehicleType |-> Null, preCrash |-> Null, borough |-> Null, hour |-> Null, dow |-> Null]

\* mutant: a field that is already fixed is offered again
neverChosen(s, f) == FALSE

\* sel[f] != null (line 643)
AlreadyChosen(s, f) == ~IsNull(s[f])

\* mutant: the comparison is the wrong way round
supportTestFlipped(n, minSupport) == n > minSupport

\* mutant: the support test is dropped
neverBelowSupport(n, minSupport) == FALSE

\* n < minSupport (line 648)
BelowSupport(n, minSupport) == n < minSupport

\* score = (direction === 'worst') ? delta : -delta (line 652)
Score(dir, delta) == IF dir = "worst" THEN delta ELSE -delta

\* mutant: an improvement of exactly minDelta ends the chain
improveStrictly(dir, delta, minDelta) ==
    IF dir = "worst" THEN delta > minDelta ELSE (-delta) > minDelta

\* mutant: the 'worst' test is used for both directions
improveAsWorst(dir, delta, minDelta) == delta >= minDelta

\* improve (line 659)
Improve(dir, delta, minDelta) ==
    IF dir = "worst" THEN delta >= minDelta ELSE (-delta) >= minDelta

\* mutant: the loop runs once more than maxDepth
loopThroughMaxDepth(depth, maxDepth) == depth <= maxDepth

\* d < maxDepth (line 640)
LoopTest(depth, maxDepth) == depth < maxDepth

\* mutant: without a model the overall rate is taken to be one half
startAtHalf(model) ==
    LET p == predictEstimator(model, EmptySel)
    IN IF ~IsNull(p) THEN p.v ELSE IF IsNull(model) THEN ONE \div 2 ELSE model.baseRate

\* predictEstimator(model, sel) ?? (model?.baseRate ?? 0) (line 637)
StartProbability(model) ==
    LET p == predictEstimator(model, EmptySel)
    IN IF ~IsNull(p) THEN p.v ELSE IF IsNull(model) THEN 0 ELSE model.baseRate

\* mutant: a later candidate with an equal score replaces the best one
beatsOnTie(score, best) == IsNull(best) \/ score >= best.score

\* best == null || score > best.score (line 653)
Beats(score, best) == IsNull(best) \/ score > best.score

\* mutant: the trial forgets the fields fixed so far
trialWithoutSel(s, f, v) == [EmptySel EXCEPT ![f] = v]

\* trial = { ...sel, [f]: v } (line 646)
Trial(s, f, v) == [s EXCEPT ![f] = v]

\* the body of the loops of lines 642-657 from pair k on: the value of best
\* when they end
RECURSIVE Scan(_, _, _, _)
Scan(c, pairs, k, best) ==
    IF k > Len(pairs) THEN best
    ELSE LET f == pairs[k].field
             v == pairs[k].value
             trial == Trial(c.sel, f, v)
             n == supportCount(c.rows, trial)
             pr == predictEstimator(c.model, trial)
             delta == FSub(pr.v, c.pCurr)
             score == Score(c.direction, delta)
         IN IF AlreadyChosen(c.sel, f) THEN Scan(c, pairs, k + 1, best)
            ELSE IF BelowSupport(n, c.minSupport) THEN Scan(c, pairs, k + 1, best)
            ELSE IF IsNull(pr) THEN Scan(c, pairs, k + 1, best)
            ELSE IF Beats(score, best)
                 THEN Scan(c, pairs, k + 1,
                          [t |-> "best", field |-> f, value |-> v, p |-> pr.v, n |-> n,
                           delta |-> delta, score |-> score])
                 ELSE Scan(c, pairs, k + 1, best)

\* the Start step of line 638
StartStep(p, n) == [field |-> Null, value |-> Null, p |-> p, n |-> n]

\* mutant: the step records the probability before the step
chainStepStaleP(best) ==
    [field |-> Str(best.field), value |-> best.value, p |-> best.p - best.delta,
     n |-> best.n, delta |-> best.delta]

\* the step of line 663
ChainStep(best) ==
    [field |-> Str(best.field), value |-> best.value, p |-> best.p, n |-> best.n,
     delta |-> best.delta]

(***************************************************************************)
(* Inputs of the model                                                     *)
(***************************************************************************)
\* longest record sequence
MaxRows == 3

Rec(veh, act, bor, h, dw, inj) ==
    [vehicleType |-> veh, preCrash |-> act, borough |-> bor, hour |-> h, dow |-> dw,
     injured |-> inj]

\* the records a sequence is drawn from
RecordPool ==
    { Rec(Str("Sedan"), Str("Turn"), Str("Bronx"), Num(7), Num(3), TRUE),
      Rec(Str("Sedan"), Null, Str("Queens"), Num(0), Num(0), FALSE),
      Rec(Str("Truck"), Str("Turn"), Str("Bronx"), Num(7), Null, TRUE),
      Rec(Null, Str("Merge"), Null, Null, Num(3), FALSE) }

\* four records that give only a vehicle type: Sedan injured, Sedan not
\* injured, Truck injured, Truck injured
ExampleRows ==
    << Rec(Str("Sedan"), Null, Null, Null, Null, TRUE),
       Rec(Str("Sedan"), Null, Null, Null, Null, FALSE),
       Rec(Str("Truck"), Null, Null, Null, Null, TRUE),
       Rec(Str("Truck"), Null, Null, Null, Null, TRUE) >>

RowSeqs == {ExampleRows} \cup UNION {[1..n -> RecordPool] : n \in 0..MaxRows}

\* the queries predictEstimator is called with
Queries ==
    { [vehicleType |-> veh, preCrash |-> act, borough |-> bor, hour |-> h, dow |-> dw] :
        veh \in {Null, Str("Sedan"), Str("Taxi")}, act \in {Null, Str("Turn")},
        bor \in {Null, Str("Bronx")}, h \in {Null, Num(7)}, dw \in {Null, Num(0)} }
    \cup {[EmptySel EXCEPT !.vehicleType = Str("Truck")]}

\* the options greedyChain is called with: the defaults of lines 616-618,
\* those of lines 687-688, and others; minDelta in units of 1/ONE
Directions == {"worst", "best"}
Opt(md, ms, mdl) == [maxDepth |-> md, minSupport |-> ms, minDelta |-> mdl]
ChainOptions ==
    { Opt(5, 80, 1000), Opt(5, 30, 0), Opt(5, 1, 0), Opt(2, 1, 0), Opt(1, 2, 1000),
      Opt(0, 1, 0), Opt(5, 1, -50000) }

(***************************************************************************)
(* State                                                                   *)
(***************************************************************************)
trainVars == <<ep, i, w, b>>
chainVars == <<direction, opts, domains, steps, sel, pCurr, d>>
hashVars == <<hashKey, hashD>>
timerVars == <<now, timers, debounceT, resizes, lastResize>>
viewVars == <<estimatorOutput, chainsContainer, timerVars>>
leafletVars == <<maps, dotLayers, legends, mapsCreated, mapLayers, mapControls, calls, lastCall>>
vars == <<rows, dimension, estModel, pc, ep, i, w, b, direction, opts, domains,
          steps, sel, pCurr, d, ret, hashKey, hashD, query,
          estimatorOutput, chainsContainer, now, timers, debounceT, resizes, lastResize,
          maps, dotLayers, legends, mapsCreated, mapLayers, mapControls, calls, lastCall>>

NoReturn == [op |-> "none"]
NoOpts == Opt(0, 0, 0)
NoDomains == [f \in {Fields[k] : k \in 1..Len(Fields)} |-> <<>>]

\* no call of trainEstimator is running: its locals do not exist
NoTrainLocals == ep = 0 /\ i = 0 /\ w = <<>> /\ b = 0

\* no call of greedyChain is running: its arguments and locals do not exist
NoChainLocals ==
    /\ direction = "worst" /\ opts = NoOpts /\ domains = NoDomains
    /\ steps = <<>> /\ sel = EmptySel /\ pCurr = 0 /\ d = 0

\* no call of hashStr is followed
NoHashCall == hashKey = <<>> /\ hashD = 1

\* no call of featureIndices is followed
NoFeatureCall == query = EmptySel

\* no page is followed: it has no elements
\* the ids of the containers of the page that hold a Leaflet map
ContainerIds == {"leaflet-map", "map"}

\* undefined: the value of Map.get for a key that was never set
Undefined == [t |-> "undefined"]

\* leafletMap.js is loaded (lines 4-6) and renderLeafletNYC was not called
NoLeaflet ==
    /\ maps = [id \in ContainerIds |-> Undefined]
    /\ dotLayers = [id \in ContainerIds |-> Undefined]
    /\ legends = [id \in ContainerIds |-> Undefined]
    /\ mapsCreated = [id \in ContainerIds |-> {}]
    /\ mapLayers = [id \in ContainerIds |-> {}]
    /\ mapControls = [id \in ContainerIds |-> {}]
    /\ calls = 0
    /\ lastCall = [id \in ContainerIds |-> Null]

NoTimers == now = 0 /\ timers = {} /\ debounceT = Null /\ resizes = 0 /\ lastResize = Null
NoView == estimatorOutput = Null /\ chainsContainer = Null /\ NoTimers

Init ==
    /\ rows \in RowSeqs
    /\ dimension \in Dims
    /\ pc = "idle"
    /\ estModel = Null
    /\ NoTrainLocals
    /\ NoChainLocals
    /\ NoHashCall
    /\ NoLeaflet
    /\ NoFeatureCall
    /\ NoView
    /\ ret = NoReturn

(***************************************************************************)
(* trainEstimator, one action per return and per pass of the inner loop    *)
(***************************************************************************)
\* mutant: a single record counts as no data
noRowsUpToOne(N) == N <= 1

\* !N (line 463)
NoRows(N) == N = 0

\* initEstimator (line 574) calls trainEstimator(rows): no records, line 463
TrainEmpty ==
    /\ pc = "idle"
    /\ NoRows(Len(rows))
    /\ estModel' = Null
    /\ pc' = "returned"
    /\ ret' = [op |-> "train", val |-> Null]
    /\ UNCHANGED <<hashVars, query, leafletVars, viewVars, rows, dimension, trainVars, chainVars>>

\* lines 464-472: the locals before the first epoch
TrainBegin ==
    /\ pc = "idle"
    /\ ~NoRows(Len(rows))
    /\ pc' = "train"
    /\ ep' = 0 /\ i' = 0
    /\ w' = [j \in 0..(dimension - 1) |-> 0]
    /\ b' = InitialBias(BaseRate(rows))
    /\ UNCHANGED <<hashVars, query, leafletVars, viewVars, rows, dimension, estModel, chainVars, ret>>

\* lines 474-489: one pass of the inner loop
TrainUpdate ==
    /\ pc = "train"
    /\ ep < epochs
    /\ LET u == Update(b, w, rows[i + 1], ep, dimension)
       IN /\ b' = u.b
          /\ w' = u.w
    /\ IF i + 1 < Len(rows) THEN i' = i + 1 /\ ep' = ep
                            ELSE i' = 0 /\ ep' = ep + 1
    /\ UNCHANGED <<hashVars, query, leafletVars, viewVars, rows, dimension, estModel, pc, chainVars, ret>>

\* line 491, and the assignment to estModel of line 574
TrainReturn ==
    /\ pc = "train"
    /\ ~(ep < epochs)
    /\ LET m == Model(dimension, w, b, BaseRate(rows))
       IN /\ estModel' = m
          /\ ret' = [op |-> "train", val |-> m]
    /\ pc' = "returned"
    /\ ep' = 0 /\ i' = 0 /\ w' = <<>> /\ b' = 0
    /\ UNCHANGED <<hashVars, query, leafletVars, viewVars, rows, dimension, chainVars>>

(***************************************************************************)
(* predictEstimator                                                        *)
(***************************************************************************)
\* mutant: z is accumulated in model.b instead of a local
predictAddingToBias(choice) ==
    /\ pc = "idle"
    /\ pc' = "returned"
    /\ ret' = [op |-> "predict", choice |-> choice, val |-> predictEstimator(estModel, choice)]
    /\ estModel' = IF IsNull(estModel) THEN Null
                   ELSE [estModel EXCEPT !.b = Dot(estModel.b, estModel.w,
                                                   featureIndices(choice, estModel.D))]
    /\ UNCHANGED <<hashVars, query, leafletVars, viewVars, rows, dimension, trainVars, chainVars>>

\* a call predictEstimator(estModel, choice) (line 563)
Predict(choice) ==
    /\ pc = "idle"
    /\ pc' = "returned"
    /\ ret' = [op |-> "predict", choice |-> choice, val |-> predictEstimator(estModel, choice)]
    /\ UNCHANGED <<hashVars, query, leafletVars, viewVars, rows, dimension, estModel, trainVars, chainVars>>

(***************************************************************************)
(* greedyChain, one action per pass of the loop over d                     *)
(***************************************************************************)
\* lines 616-638; the domains are those of line 686
ChainBegin(dir, o) ==
    /\ pc = "idle"
    /\ pc' = "chain"
    /\ direction' = dir
    /\ opts' = o
    /\ domains' = buildDomains(rows)
    /\ sel' = EmptySel
    /\ pCurr' = StartProbability(estModel)
    /\ steps' = <<StartStep(StartProbability(estModel), Len(rows))>>
    /\ d' = 0
    /\ UNCHANGED <<hashVars, query, leafletVars, viewVars, rows, dimension, estModel, trainVars, ret>>

\* best after the loops of lines 642-657
Best ==
    Scan([rows |-> rows, model |-> estModel, direction |-> direction,
          minSupport |-> opts.minSupport, sel |-> sel, pCurr |-> pCurr],
         PairsFrom(domains, 1), 1, Null)

\* line 666
ChainReturns ==
    /\ pc' = "returned"
    /\ ret' = [op |-> "chain", direction |-> direction, opts |-> opts, val |-> steps]
    /\ direction' = "worst" /\ opts' = NoOpts /\ domains' = NoDomains
    /\ steps' = <<>> /\ sel' = EmptySel /\ pCurr' = 0 /\ d' = 0
    /\ UNCHANGED <<hashVars, query, leafletVars, viewVars, rows, dimension, estModel, trainVars>>

\* lines 661-663
ChainAppends(best) ==
    /\ sel' = [sel EXCEPT ![best.field] = best.value]
    /\ pCurr' = best.p
    /\ steps' = Append(steps, ChainStep(best))
    /\ d' = d + 1
    /\ UNCHANGED <<hashVars, query, leafletVars, viewVars, rows, dimension, estModel, pc, trainVars, direction, opts, domains, ret>>

\* one pass of the loop of line 640: the loop ends (the test fails, or a
\* break of line 658 or 660) and the function returns, or a step is appended
ChainPass ==
    /\ pc = "chain"
    /\ IF ~LoopTest(d, opts.maxDepth) THEN ChainReturns
       ELSE LET best == Best
            IN IF IsNull(best) THEN ChainReturns
               ELSE IF ~Improve(direction, best.delta, opts.minDelta) THEN ChainReturns
               ELSE ChainAppends(best)

(***************************************************************************)
(* The caller                                                              *)
(***************************************************************************)
\* the caller has used the value (lines 562-568, 574, 687-688) and goes on
Resume ==
    /\ pc = "returned"
    /\ pc' = "idle"
    /\ ret' = NoReturn
    /\ UNCHANGED <<hashVars, query, leafletVars, viewVars, rows, dimension, estModel, trainVars, chainVars>>

Next ==
    \/ TrainEmpty
    \/ TrainBegin
    \/ TrainUpdate
    \/ TrainReturn
    \/ \E choice \in Queries : Predict(choice)
    \/ \E dir \in Directions, o \in ChainOptions : ChainBegin(dir, o)
    \/ ChainPass
    \/ Resume

Spec == Init /\ [][Next]_vars

(***************************************************************************)
(* hashStr on its own: the keys and dimensions it is applied to            *)
(***************************************************************************)
\* longest key drawn from HashUnits
MaxKeyLen == 5

\* code units of '0', of the cross of lines 455-457, and the largest one
HashUnits == {48, 215, 65535}

\* keys as featureIndices builds them
FeatureKeys ==
    { KeyCodes("veh", CharCodes("Sedan")), KeyCodes("act", CharCodes("Turn")),
      KeyCodes("hour", DecStr(7)), KeyCodes("dow", DecStr(3)),
      KeyCodes("actxhour", Cross(CharCodes("Turn"), DecStr(7))),
      KeyCodes("vehxact", Cross(CharCodes("Sedan"), CharCodes("Turn"))) }

HashKeys == FeatureKeys \cup UNION {[1..n -> HashUnits] : n \in 0..MaxKeyLen}
HashDims == {1, 4, 1000, 1024}

InitHash ==
    /\ hashKey \in HashKeys
    /\ NoLeaflet
    /\ hashD \in HashDims
    /\ rows = <<>>
    /\ dimension = 1024
    /\ pc = "idle"
    /\ estModel = Null
    /\ NoTrainLocals
    /\ NoChainLocals
    /\ NoFeatureCall
    /\ NoView
    /\ ret = NoReturn

\* a call hashStr(s, D) (line 446)
HashCall ==
    /\ pc = "idle"
    /\ pc' = "returned"
    /\ ret' = [op |-> "hash", val |-> hashStr(hashKey, hashD)]
    /\ UNCHANGED <<hashVars, query, leafletVars, viewVars, rows, dimension, estModel, trainVars, chainVars>>

\* a second call with the same arguments
HashRepeat ==
    /\ pc = "returned"
    /\ ret.op = "hash"
    /\ pc' = "repeated"
    /\ ret' = [op |-> "hash again", first |-> ret.val, val |-> hashStr(hashKey, hashD)]
    /\ UNCHANGED <<hashVars, query, leafletVars, viewVars, rows, dimension, estModel, trainVars, chainVars>>

NextHash ==
    \/ HashCall
    \/ HashRepeat

SpecHash == InitHash /\ [][NextHash]_vars

(***************************************************************************)
(* Properties of predictEstimator and trainEstimator                       *)
(***************************************************************************)
\* C1: for every model trainEstimator has returned and every query, seen in
\* training or not, predictEstimator returns a number p, never NaN, with
\* 0 <= p <= 1
C1_PredictInUnitInterval ==
    (ret.op = "predict" /\ ~IsNull(estModel)) =>
        /\ ret.val.t = "num"
        /\ ret.val.v # NaN
        /\ ret.val.v \in 0..ONE

\* a trained model with colliding keys answers a query on a vehicle type no
\* record has
C1_Witness ==
    /\ ret.op = "predict"
    /\ ~IsNull(estModel)
    /\ estModel.D = 4
    /\ ret.choice.vehicleType = Str("Taxi")
    /\ ret.val.v \in 1..(ONE - 1)

\* C2: predictEstimator returns null if and only if the model is null; with
\* a model it returns a number for every query
C2_PredictNullIffNoModel ==
    ret.op = "predict" =>
        /\ IsNull(ret.val) <=> IsNull(estModel)
        /\ ~IsNull(estModel) => ret.val.t = "num"

\* a trained model answers the query that sets no field
C2_Witness ==
    /\ ret.op = "predict"
    /\ ~IsNull(estModel)
    /\ ret.choice = EmptySel
    /\ ret.val.t = "num"

\* C3: trainEstimator returns null for the empty record sequence and a model
\* for every other one
C3_TrainNullIffNoRows ==
    ret.op = "train" =>
        /\ IsNull(ret.val) <=> Len(rows) = 0
        /\ Len(rows) > 0 => ret.val.t = "model"

\* trainEstimator has returned null for the empty sequence
C3_Witness ==
    /\ ret.op = "train"
    /\ rows = <<>>
    /\ IsNull(ret.val)
    /\ IsNull(estModel)

(***************************************************************************)
(* Properties of greedyChain                                               *)
(***************************************************************************)
\* C4: with a null model greedyChain returns the Start step alone, with
\* probability 0 and the number of records as its support
C4_NullModelStartOnly ==
    (ret.op = "chain" /\ IsNull(estModel)) =>
        /\ Len(ret.val) = 1
        /\ IsNull(ret.val[1].field)
        /\ ret.val[1].p = 0
        /\ ret.val[1].n = Len(rows)

\* a chain for direction 'best' over three records, every value of which has
\* enough support, was asked for without a model
C4_Witness ==
    /\ ret.op = "chain"
    /\ IsNull(estModel)
    /\ ret.direction = "best"
    /\ ret.opts.minSupport = 1
    /\ Len(rows) = 3
    /\ ret.val[1].n = 3

\* C6: with minDelta >= 0 the probabilities of a chain never fall along a
\* 'worst' chain and never rise along a 'best' chain
C6_ChainMonotone ==
    (ret.op = "chain" /\ ret.opts.minDelta >= 0) =>
        \A k \in 2..Len(ret.val) :
            IF ret.direction = "worst" THEN ret.val[k].p >= ret.val[k - 1].p
                                       ELSE ret.val[k].p <= ret.val[k - 1].p

\* a 'best' chain of two steps after Start, each with a lower probability
C6_Witness ==
    /\ ret.op = "chain"
    /\ ret.direction = "best"
    /\ ret.opts.minDelta >= 0
    /\ Len(ret.val) >= 3
    /\ ret.val[2].p < ret.val[1].p
    /\ ret.val[3].p < ret.val[2].p

\* C7: no field is in two steps of a chain; while the chain is built, a field
\* that a step has fixed keeps the value of that step
C7_FieldsUnique ==
    /\ ret.op = "chain" =>
          \A j, k \in 2..Len(ret.val) : j # k => ret.val[j].field # ret.val[k].field
    /\ pc = "chain" =>
          /\ \A j, k \in 2..Len(steps) : j # k => steps[j].field # steps[k].field
          /\ \A k \in 2..Len(steps) : sel[steps[k].field.v] = steps[k].value

\* a chain with minDelta = 0 that fixed three fields and went on
C7_Witness ==
    /\ ret.op = "chain"
    /\ ret.opts.minDelta = 0
    /\ Len(ret.val) >= 4
    /\ Len(ret.val) < ret.opts.maxDepth + 1

\* C8: with minSupport above the number of records the chain is the Start
\* step alone, for both directions
C8_NoSupportStartOnly ==
    (ret.op = "chain" /\ ret.opts.minSupport > Len(rows)) => Len(ret.val) = 1

\* a trained model, three records, and more support asked for than there are
\* records
C8_Witness ==
    /\ ret.op = "chain"
    /\ ~IsNull(estModel)
    /\ Len(rows) = 3
    /\ ret.opts.minSupport > 3
    /\ ret.direction = "best"
    /\ Len(ret.val) = 1

\* C9: a chain has between 1 and maxDepth + 1 steps; the first is the Start
\* step (no field, no value, all records as support, the model's prediction
\* for the query that sets no field as probability); no other step is
\* without a field
C9_ChainShape ==
    ret.op = "chain" =>
        /\ Len(ret.val) \in 1..(ret.opts.maxDepth + 1)
        /\ IsNull(ret.val[1].field)
        /\ IsNull(ret.val[1].value)
        /\ ret.val[1].n = Len(rows)
        /\ ~IsNull(estModel) => ret.val[1].p = predictEstimator(estModel, EmptySel).v
        /\ \A k \in 2..Len(ret.val) : ~IsNull(ret.val[k].field)

\* a chain that the depth bound ended
C9_Witness ==
    /\ ret.op = "chain"
    /\ ~IsNull(estModel)
    /\ ret.opts.maxDepth = 2
    /\ Len(ret.val) = 3

\* C10: every step after Start has a support of at least minSupport
C10_StepsHaveSupport ==
    ret.op = "chain" =>
        \A k \in 2..Len(ret.val) : ret.val[k].n >= ret.opts.minSupport

\* a step was chosen with exactly the support asked for, out of records that
\* also offer values with less
C10_Witness ==
    /\ ret.op = "chain"
    /\ ret.opts.minSupport = 2
    /\ Len(rows) = 3
    /\ Len(ret.val) >= 2
    /\ ret.val[2].n = 2
    /\ \E k \in 1..Len(rows) :
          supportCount(rows, [EmptySel EXCEPT !.borough = rows[k].borough]) = 1

SelBefore == [sel EXCEPT ![steps[Len(steps)].field.v] = Null]
PBefore == steps[Len(steps) - 1].p

\* candidate k in the order of the loops: its trial selection, whether it is
\* eligible, and its score for the direction of the chain
TrialAt(k) ==
    [SelBefore EXCEPT ![PairsFrom(domains, 1)[k].field] = PairsFrom(domains, 1)[k].value]
EligibleAt(k) ==
    /\ IsNull(SelBefore[PairsFrom(domains, 1)[k].field])
    /\ supportCount(rows, TrialAt(k)) >= opts.minSupport
GainAt(k) ==
    LET dl == predictEstimator(estModel, TrialAt(k)).v - PBefore
    IN IF direction = "worst" THEN dl ELSE -dl

\* the place of the last step among the candidates
ChosenAt(k) ==
    /\ PairsFrom(domains, 1)[k].field = steps[Len(steps)].field.v
    /\ PairsFrom(domains, 1)[k].value = steps[Len(steps)].value

\* C11: the step appended at each depth is an eligible candidate (field not
\* yet fixed, value of the field's domain, support >= minSupport) whose score
\* (delta for 'worst', -delta for 'best') no eligible candidate exceeds and
\* no eligible candidate earlier in the order of the loops equals
C11_StepIsFirstBest ==
    (pc = "chain" /\ Len(steps) >= 2) =>
        \E c \in 1..Len(PairsFrom(domains, 1)) :
            /\ ChosenAt(c)
            /\ EligibleAt(c)
            /\ steps[Len(steps)].p = predictEstimator(estModel, TrialAt(c)).v
            /\ steps[Len(steps)].n = supportCount(rows, TrialAt(c))
            /\ \A k \in 1..Len(PairsFrom(domains, 1)) : EligibleAt(k) => GainAt(k) <= GainAt(c)
            /\ \A k \in 1..(c - 1) : EligibleAt(k) => GainAt(k) < GainAt(c)

\* a step was appended although a later candidate had exactly its score
C11_Witness ==
    /\ pc = "chain"
    /\ Len(steps) >= 2
    /\ direction = "best"
    /\ \E c, k \in 1..Len(PairsFrom(domains, 1)) :
          /\ ChosenAt(c)
          /\ k > c
          /\ EligibleAt(k)
          /\ GainAt(k) = GainAt(c)

(***************************************************************************)
(* The passes of the loop of greedyChain                                   *)
(***************************************************************************)
\* candidate k in the order of the loops, for the selection as it is now:
\* whether it is eligible, and its score for the direction of the chain
EligibleNow(k) ==
    /\ ~IsNull(estModel)
    /\ IsNull(sel[PairsFrom(domains, 1)[k].field])
    /\ supportCount(rows, [sel EXCEPT ![PairsFrom(domains, 1)[k].field] =
                                         PairsFrom(domains, 1)[k].value]) >= opts.minSupport
GainNow(k) ==
    LET dl == predictEstimator(estModel, [sel EXCEPT ![PairsFrom(domains, 1)[k].field] =
                                              PairsFrom(domains, 1)[k].value]).v - pCurr
    IN IF direction = "worst" THEN dl ELSE -dl

\* the loop ends in this pass: the depth bound is reached, no candidate is
\* eligible, or the best score is below minDelta
LastPass ==
    \/ d >= opts.maxDepth
    \/ \A k \in 1..Len(PairsFrom(domains, 1)) : EligibleNow(k) => GainNow(k) < opts.minDelta

\* what a pass of the loop does: it ends the search and returns the steps as
\* they are, or it appends one step, fixes its field and makes its
\* probability the current one
PassRule ==
    pc = "chain" =>
        IF LastPass
        THEN pc' = "returned" /\ ret'.op = "chain" /\ ret'.val = steps
        ELSE /\ pc' = "chain"
             /\ d' = d + 1
             /\ Len(steps') = Len(steps) + 1
             /\ SubSeq(steps', 1, Len(steps)) = steps
             /\ pCurr' = steps'[Len(steps')].p
             /\ sel' = [sel EXCEPT ![steps'[Len(steps')].field.v] = steps'[Len(steps')].value]
             /\ (IF direction = "worst" THEN pCurr' - pCurr ELSE pCurr - pCurr') >= opts.minDelta

\* every step after Start improves on the step before it by minDelta or more
StepsImprove(ch, dir, minDelta) ==
    \A k \in 2..Len(ch) :
        (IF dir = "worst" THEN ch[k].p - ch[k - 1].p ELSE ch[k - 1].p - ch[k].p) >= minDelta

\* C12: a pass of the loop ends the search, appending nothing, when the depth
\* bound is reached, no candidate is eligible or the best improvement is
\* below minDelta, and appends exactly one step otherwise; every step after
\* Start improves by minDelta or more; the search terminates: the passes
\* are counted by d, which never exceeds maxDepth
C12_StopOrAppend ==
    /\ [][PassRule]_vars
    /\ [](ret.op = "chain" => StepsImprove(ret.val, ret.direction, ret.opts.minDelta))
    /\ [](pc = "chain" => (d \in 0..opts.maxDepth /\ Len(steps) = d + 1))

\* a chain was extended by a step that improves by exactly minDelta, and
\* ended for lack of improvement before the depth bound
C12_Witness ==
    /\ ret.op = "chain"
    /\ ret.opts.minDelta = 0
    /\ Len(ret.val) \in 3..ret.opts.maxDepth
    /\ \E k \in 2..Len(ret.val) : ret.val[k].p = ret.val[k - 1].p

(***************************************************************************)
(* Determinism and frame of the engine                                     *)
(***************************************************************************)
\* C13: a second run of trainEstimator on the same records in the same order
\* with the same D ends with the weights, the bias and the base rate of the
\* model the first run returned, whatever was called in between
C13_TrainDeterministic ==
    (pc = "train" /\ ep = epochs /\ ~IsNull(estModel)) =>
        /\ dimension = estModel.D
        /\ w = estModel.w
        /\ b = estModel.b
        /\ BaseRate(rows) = estModel.baseRate

\* a second run over three records has passed its last epoch, with weights
\* that are not all zero
C13_Witness ==
    /\ pc = "train"
    /\ ep = epochs
    /\ ~IsNull(estModel)
    /\ Len(rows) = 3
    /\ w = estModel.w
    /\ \E j \in DOMAIN w : w[j] # 0

\* what a step may change of the inputs: the records never, estModel only
\* when trainEstimator returns, and then to the value returned
InputsKept ==
    /\ rows' = rows
    /\ dimension' = dimension
    /\ estModel' # estModel => (pc = "train" /\ ret'.op = "train" /\ ret'.val = estModel')
    /\ (pc = "chain" /\ pc' = "chain") => domains' = domains

\* C14: no operation changes its inputs: trainEstimator leaves the records
\* as they are, predictEstimator and greedyChain leave the model, the
\* records and the domain table as they are, so estModel is at all times
\* what trainEstimator returned last
C14_InputsUnchanged ==
    /\ [][InputsKept]_vars
    /\ [](pc = "chain" => domains = buildDomains(rows))
    /\ [](~IsNull(estModel) => (estModel.D = dimension /\ estModel.baseRate = BaseRate(rows)))

\* a chain of several steps was returned for a trained model, whose weights
\* and base rate are in place
C14_Witness ==
    /\ ret.op = "chain"
    /\ ~IsNull(estModel)
    /\ Len(ret.val) >= 2
    /\ \E j \in DOMAIN estModel.w : estModel.w[j] # 0
    /\ estModel.baseRate = BaseRate(rows)

(***************************************************************************)
(* The model trained on given records                                      *)
(***************************************************************************)
\* C15: the model trainEstimator returns for a non-empty record sequence has
\* as baseRate the number of injured records divided by the number of
\* records, a value in [0,1]; for the four example records it is 0.75
C15_BaseRateIsFraction ==
    (ret.op = "train" /\ Len(rows) > 0) =>
        /\ ret.val.baseRate =
              (Cardinality({k \in 1..Len(rows) : rows[k].injured}) * ONE) \div Len(rows)
        /\ ret.val.baseRate \in 0..ONE
        /\ rows = ExampleRows => ret.val.baseRate = (3 * ONE) \div 4

\* trainEstimator has returned for the four example records
C15_Witness ==
    /\ ret.op = "train"
    /\ rows = ExampleRows
    /\ ret.val.baseRate = 750000

\* the queries {vehicleType: "Truck"} and {vehicleType: "Sedan"}
TruckQuery == [EmptySel EXCEPT !.vehicleType = Str("Truck")]
SedanQuery == [EmptySel EXCEPT !.vehicleType = Str("Sedan")]

\* C16: after training on the four example records, in their order and with
\* the default D, learning rate, penalty and epochs, the prediction for
\* {vehicleType: "Truck"} is greater than that for {vehicleType: "Sedan"}
C16_TruckAboveSedan ==
    (ret.op = "predict" /\ rows = ExampleRows /\ dimension = 1024 /\ ~IsNull(estModel)) =>
        /\ ret.choice = TruckQuery => ret.val.v > predictEstimator(estModel, SedanQuery).v
        /\ ret.choice = SedanQuery => ret.val.v < predictEstimator(estModel, TruckQuery).v

\* the prediction for Truck was made with the model of the example, about
\* 0.78 against about 0.71 for Sedan
C16_Witness ==
    /\ ret.op = "predict"
    /\ rows = ExampleRows
    /\ dimension = 1024
    /\ ~IsNull(estModel)
    /\ ret.choice = TruckQuery
    /\ ret.val.v \in 780000..785000
    /\ predictEstimator(estModel, SedanQuery).v \in 712000..717000

(***************************************************************************)
(* featureIndices on its own: the choices it is applied to                 *)
(***************************************************************************)
\* values of a category field: absent, empty, the placeholder, a label
FeatureChoices ==
    { [vehicleType |-> veh, preCrash |-> act, borough |-> bor, hour |-> h, dow |-> dw] :
        veh \in {Null, Str(""), Str("Unspecified"), Str("Sedan")},
        act \in {Null, Str(""), Str("Unspecified"), Str("Turn")},
        bor \in {Null, Str("Unspecified"), Str("Bronx")},
        h \in {Null, Num(7)}, dw \in {Null, Num(3)} }

InitFeatures ==
    /\ query \in FeatureChoices
    /\ NoView
    /\ dimension \in Dims
    /\ rows = <<>>
    /\ pc = "idle"
    /\ estModel = Null
    /\ NoTrainLocals
    /\ NoChainLocals
    /\ NoHashCall
    /\ NoLeaflet
    /\ ret = NoReturn

\* a call featureIndices(choice, D) (lines 470, 496)
FeaturesCall ==
    /\ pc = "idle"
    /\ pc' = "returned"
    /\ ret' = [op |-> "features", val |-> featureIndices(query, dimension)]
    /\ UNCHANGED <<hashVars, query, leafletVars, viewVars, rows, dimension, estModel, trainVars, chainVars>>

NextFeatures == FeaturesCall

SpecFeatures == InitFeatures /\ [][NextFeatures]_vars

\* a field has a value: not absent, not null, not empty, not "Unspecified"
Present(x) == x.t = "num" \/ (x.t = "str" /\ x.v # "" /\ x.v # "Unspecified")

\* the keys of the fields that have a value, and the interaction keys of the
\* pairs of fields that both have one
PresentKeys(choice) ==
    LET veh == CharCodes(OrEmpty(choice.vehicleType))
        act == CharCodes(OrEmpty(choice.preCrash))
        bor == CharCodes(OrEmpty(choice.borough))
    IN (IF Present(choice.vehicleType) THEN {KeyCodes("veh", veh)} ELSE {})
       \cup (IF Present(choice.preCrash) THEN {KeyCodes("act", act)} ELSE {})
       \cup (IF Present(choice.borough) THEN {KeyCodes("bor", bor)} ELSE {})
       \cup (IF Present(choice.hour) THEN {KeyCodes("hour", DecStr(choice.hour.v))} ELSE {})
       \cup (IF Present(choice.dow) THEN {KeyCodes("dow", DecStr(choice.dow.v))} ELSE {})
       \cup (IF Present(choice.preCrash) /\ Present(choice.hour)
             THEN {KeyCodes("actxhour", Cross(act, DecStr(choice.hour.v)))} ELSE {})
       \cup (IF Present(choice.preCrash) /\ Present(choice.dow)
             THEN {KeyCodes("actxdow", Cross(act, DecStr(choice.dow.v)))} ELSE {})
       \cup (IF Present(choice.vehicleType) /\ Present(choice.preCrash)
             THEN {KeyCodes("vehxact", Cross(veh, act))} ELSE {})

\* C17: featureIndices emits no feature for a field that is absent, null,
\* empty or "Unspecified": neither the key of the field nor an interaction
\* key with it; the query that sets no field has no feature
C17_NoFeatureOfAbsentField ==
    ret.op = "features" =>
        /\ ret.val = {hashStr(k, dimension) : k \in PresentKeys(query)}
        /\ query = EmptySel => ret.val = {}

\* the buckets of the keys of a record or query, each held once
BucketsOf(choice, D) == {hashStr(k, D) : k \in featureKeys(choice)}

\* two distinct keys of the record or query share a bucket
KeysCollide(choice, D) ==
    \E k1, k2 \in featureKeys(choice) : k1 # k2 /\ hashStr(k1, D) = hashStr(k2, D)

\* the probability predictEstimator returns for the linear combination z
Answer(z) == Num(MathMax(0, MathMin(ONE, sigmoid(z))))

\* the bias after one update whose linear combination is z (lines 479-482)
BiasAfter(z) ==
    FSub(b, FMul(LearningRate(ep), FSub(sigmoid(z), IF rows[i + 1].injured THEN ONE ELSE 0)))

\* a step of the training loop over one record
TrainStep == pc = "train" /\ pc' = "train" /\ <<i, ep>>' # <<i, ep>>

\* C18 as stated: a bucket's weight enters z once for every key hashed to
\* it, in prediction and in every training update
C18_OncePerKey ==
    /\ [](ret.op = "predict" /\ ~IsNull(estModel) =>
            ret.val = Answer(DotKeys(estModel.b, estModel.w,
                                     featureKeys(ret.choice), estModel.D)))
    /\ [][TrainStep =>
            b' = BiasAfter(DotKeys(b, w, featureKeys(rows[i + 1]), dimension))]_vars

\* C18 amended: a bucket two distinct keys of a record or query hash to is
\* held once in the feature set, and its weight enters z once, in prediction
\* and in every training update
C18_OncePerBucket ==
    /\ [](ret.op = "predict" /\ ~IsNull(estModel) =>
            /\ featureIndices(ret.choice, estModel.D) = BucketsOf(ret.choice, estModel.D)
            /\ ret.val = Answer(Dot(estModel.b, estModel.w,
                                    BucketsOf(ret.choice, estModel.D))))
    /\ [][TrainStep =>
            b' = BiasAfter(Dot(b, w, BucketsOf(rows[i + 1], dimension)))]_vars

\* a trained model answers a query two of whose keys share a bucket, and the
\* sum once per key would give another answer
C18_Witness ==
    /\ ret.op = "predict"
    /\ ~IsNull(estModel)
    /\ KeysCollide(ret.choice, estModel.D)
    /\ Cardinality(BucketsOf(ret.choice, estModel.D)) < Cardinality(featureKeys(ret.choice))
    /\ ret.val # Answer(DotKeys(estModel.b, estModel.w, featureKeys(ret.choice), estModel.D))

(***************************************************************************)
(* buildDomains on its own: the record sets it is applied to               *)
(***************************************************************************)
MaxDomainRows == 3
MaxLabels == 13

\* the values of a category field in the short record sets
DomainLabels ==
    {Null, Str(""), Str(" "), Str("Unspecified"), Str("NA"), Str("Unknown"),
     Str(" Sedan"), Str("Sedan"), Str("Truck "), Str("Truck")}

\* a record whose three category fields carry the labels given
LabelRec(veh, bor) == Rec(veh, veh, bor, Null, Null, FALSE)

ShortRows ==
    UNION {[1..n -> {LabelRec(l, l) : l \in DomainLabels}] : n \in 0..MaxDomainRows}

LabelNames ==
    <<"L01", "L02", "L03", "L04", "L05", "L06", "L07", "L08", "L09", "L10",
      "L11", "L12", "L13", "L14", "L15", "L16">>

\* n records of n distinct labels, followed by one more record of the label
\* again when again > 0
LongRows(n, again) ==
    [k \in 1..(n + IF again > 0 THEN 1 ELSE 0) |->
        LET l == Str(LabelNames[IF k <= n THEN k ELSE again])
        IN LabelRec(l, l)]

DomainRowSeqs ==
    ShortRows \cup {LongRows(n, again) : n \in 1..MaxLabels, again \in 0..MaxLabels}

InitDomains ==
    /\ rows \in DomainRowSeqs
    /\ dimension = 1024
    /\ pc = "idle"
    /\ estModel = Null
    /\ NoTrainLocals
    /\ NoChainLocals
    /\ NoHashCall
    /\ NoLeaflet
    /\ NoFeatureCall
    /\ NoView
    /\ ret = NoReturn

\* a call buildDomains(rows) (line 686)
DomainsCall ==
    /\ pc = "idle"
    /\ pc' = "returned"
    /\ ret' = [op |-> "domains", val |-> buildDomains(rows)]
    /\ UNCHANGED <<hashVars, query, leafletVars, viewVars, rows, dimension, estModel, trainVars, chainVars>>

NextDomains == DomainsCall

SpecDomains == InitDomains /\ [][NextDomains]_vars

CategoryFields == {"vehicleType", "preCrash", "borough"}

\* slice(0, 12) for vehicleType and preCrash, slice(0, 6) for borough
Cap(f) == IF f = "borough" THEN 6 ELSE 12

\* the values of field f, record by record: as they stand, and as byCount
\* reads them (line 588)
Column(rs, f) == [k \in 1..Len(rs) |-> rs[k][f]]
TrimmedColumn(rs, f) == [k \in 1..Len(rs) |-> Str(Trimmed(rs[k], f))]

\* how often the value x occurs in the column, and where first
Occurrences(col, x) == Cardinality({k \in 1..Len(col) : col[k] = x})
FirstAt(col, x) == CHOOSE k \in 1..Len(col) : col[k] = x /\ \A j \in 1..(k - 1) : col[j] # x

\* x is ranked before y: more frequent, or as frequent and met earlier
RankedBefore(col, x, y) ==
    \/ Occurrences(col, x) > Occurrences(col, y)
    \/ /\ Occurrences(col, x) = Occurrences(col, y)
       /\ FirstAt(col, x) < FirstAt(col, y)

\* s lists the first n values of vals in rank order, once each (all of them
\* when there are no more than n)
RankedPrefixOf(s, col, vals, n) ==
    /\ Len(s) = (IF Cardinality(vals) < n THEN Cardinality(vals) ELSE n)
    /\ \A p \in 1..Len(s) : s[p] \in vals
    /\ \A p, q \in 1..Len(s) : p < q => RankedBefore(col, s[p], s[q])
    /\ \A p \in 1..Len(s) :
          \A v \in vals \ {s[q] : q \in 1..Len(s)} : RankedBefore(col, s[p], v)

\* s lists the values of vals once each, in rank order
RankedListOf(s, col, vals) == RankedPrefixOf(s, col, vals, Cardinality(vals))

\* the values in the column other than null, empty, "Unspecified"
ValuesOf(col) ==
    {col[k] : k \in 1..Len(col)} \ {Null, Str(""), Str("Unspecified")}

\* the values byCount counts (line 589)
CountedValuesOf(col) ==
    {col[k] : k \in 1..Len(col)} \ {Str(l) : l \in SkippedLabels}

\* C19 as stated: the domain of every field, hour and dow included, lists the
\* values of the field that occur in the records other than null, empty and
\* "Unspecified", once each, by descending frequency, ties by first met
C19_DomainIsRankedValues ==
    ret.op = "domains" =>
        \A k \in 1..Len(Fields) :
            LET col == Column(rows, Fields[k])
            IN RankedListOf(ret.val[Fields[k]], col, ValuesOf(col))

\* C19 amended: the domain of a category field (vehicleType, preCrash,
\* borough) lists the trimmed values of the field in the records other than
\* empty, "Unspecified", "NA" and "Unknown", once each, by descending
\* frequency, ties by first met, cut to the first 12 (borough: 6); the
\* domain of hour is 0..23 and that of dow is 1, 2, 3, 4, 5, 6, 0, whatever
\* the records
C19_DomainsRanked ==
    ret.op = "domains" =>
        /\ \A f \in CategoryFields :
              LET col == TrimmedColumn(rows, f)
              IN RankedPrefixOf(ret.val[f], col, CountedValuesOf(col), Cap(f))
        /\ ret.val.hour = [k \in 1..24 |-> Num(k - 1)]
        /\ ret.val.dow = <<Num(1), Num(2), Num(3), Num(4), Num(5), Num(6), Num(0)>>

\* the domains of three records: "Sedan", met second and third (once with a
\* blank), is ranked before "Truck", met first, and "NA" is left out
C19_Witness ==
    /\ ret.op = "domains"
    /\ Len(rows) = 3
    /\ rows[1].vehicleType = Str("Truck ")
    /\ rows[2].vehicleType = Str(" Sedan")
    /\ rows[3].vehicleType = Str("Sedan")
    /\ ret.val.vehicleType = <<Str("Sedan"), Str("Truck")>>
    /\ ret.val.borough = ret.val.vehicleType

\* C20 as stated: the domain of every field has at most 12 values
C20_AtMostTwelve ==
    ret.op = "domains" =>
        \A k \in 1..Len(Fields) : Len(ret.val[Fields[k]]) <= 12

\* C20 amended: the domains of vehicleType and preCrash have at most 12
\* values and that of borough at most 6, whatever the records; the domain
\* of hour has 24 values and that of dow 7
C20_CategoryDomainsCapped ==
    ret.op = "domains" =>
        /\ \A f \in CategoryFields : Len(ret.val[f]) <= Cap(f)
        /\ Len(ret.val.hour) = 24
        /\ Len(ret.val.dow) = 7

\* the domains of records with 13 distinct labels: 12 vehicle types and 6
\* boroughs are kept
C20_Witness ==
    /\ ret.op = "domains"
    /\ Cardinality(CountedValuesOf(TrimmedColumn(rows, "vehicleType"))) = 13
    /\ Len(ret.val.vehicleType) = 12
    /\ Len(ret.val.preCrash) = 12
    /\ Len(ret.val.borough) = 6

(***************************************************************************)
(* trainEstimator and greedyChain as functions of their arguments          *)
(***************************************************************************)
\* the loops of lines 473-489 from record k (0-based) of epoch e on: the bias
\* and the weights when they end
RECURSIVE TrainLoop(_, _, _, _, _, _)
\* the loops go on after an update u: the next record (line 475) or the
\* next epoch (line 473)
TrainLoopAfter(u, rs, e, k, dim) ==
    IF k + 1 < Len(rs) THEN TrainLoop(u.b, u.w, rs, e, k + 1, dim)
                       ELSE TrainLoop(u.b, u.w, rs, e + 1, 0, dim)

TrainLoop(bb, ww, rs, e, k, dim) ==
    IF ~(e < epochs) THEN [b |-> bb, w |-> ww]
    ELSE TrainLoopAfter(Update(bb, ww, rs[k + 1], e, dim), rs, e, k, dim)

\* line 491: the model of the trained bias and weights r
TrainedModel(dim, r, baseRate) == Model(dim, r.w, r.b, baseRate)

trainEstimator(rs, dim) ==
    IF NoRows(Len(rs)) THEN Null
    ELSE TrainedModel(dim,
                      TrainLoop(InitialBias(BaseRate(rs)), [j \in 0..(dim - 1) |-> 0],
                                rs, 0, 0, dim),
                      BaseRate(rs))

\* the loop of line 640 from the steps st on: the steps when it ends
RECURSIVE ChainLoop(_, _, _, _)
\* lines 658-665 of a pass of the loop, best being the candidate it found
ChainLoopAfter(c, doms, o, st, best) ==
    IF IsNull(best) THEN st
    ELSE IF ~Improve(c.direction, best.delta, o.minDelta) THEN st
    ELSE ChainLoop([c EXCEPT !.sel = [c.sel EXCEPT ![best.field] = best.value],
                             !.pCurr = best.p],
                   doms, o, Append(st, ChainStep(best)))

ChainLoop(c, doms, o, st) ==
    IF ~LoopTest(Len(st) - 1, o.maxDepth) THEN st
    ELSE ChainLoopAfter(c, doms, o, st, Scan(c, PairsFrom(doms, 1), 1, Null))

\* lines 638-667 once p0 is known: pCurr = p0, steps = [Start], the loop
greedyChainFrom(rs, model, doms, dir, o, p0) ==
    ChainLoop([rows |-> rs, model |-> model, direction |-> dir,
               minSupport |-> o.minSupport, sel |-> EmptySel, pCurr |-> p0],
              doms, o, <<StartStep(p0, Len(rs))>>)

greedyChain(rs, model, doms, dir, o) ==
    greedyChainFrom(rs, model, doms, dir, o, StartProbability(model))

(***************************************************************************)
(* The page: init (lines 109-167) and its handlers                         *)
(***************************************************************************)
\* the record sets the page is loaded with: none, one record, the example
PageRowSeqs == {<<>>, ExampleRows} \cup {<<r>> : r \in RecordPool}

\* the texts the two views show ("..." stands for the ellipsis character)
LoadingText == Str("Loading estimator...")
DashText == Str("-")
NotEnoughDataText == Str("Not enough data to build chains")

\* renderEstimatorPrediction (lines 558-569): the new text of the element out
\* lines 564-568: the text for the prediction p
PredictionText(model, p) ==
    IF IsNull(p) THEN DashText
    ELSE [t |-> "estimate", p |-> p.v,
          higher |-> IF model.baseRate > 0 THEN p.v >= model.baseRate ELSE TRUE]

renderEstimatorPrediction(out, model, choice) ==
    IF IsNull(out) THEN out
    ELSE IF IsNull(model) THEN LoadingText
    ELSE PredictionText(model, predictEstimator(model, choice))

\* the options of lines 687-688
PageChainOptions == Opt(5, 30, 0)

\* lines 686-716: the worst and the best chain over the domains doms
renderChainsOf(rs, model, doms) ==
    [t |-> "chains",
     chains |-> [dir \in Directions |-> greedyChain(rs, model, doms, dir, PageChainOptions)]]

\* renderRiskChains (lines 668-716): the new content of the element el
renderRiskChains(el, rs, model) ==
    IF IsNull(el) THEN el
    ELSE IF Len(rs) = 0 \/ IsNull(model) THEN NotEnoughDataText
    ELSE renderChainsOf(rs, model, buildDomains(rs))

\* the choices readEstimatorChoice (lines 542-556) can read from the selects
\* populateEstimatorOptions has filled from the records
PageQueries ==
    {EmptySel, TruckQuery, SedanQuery, [EmptySel EXCEPT !.hour = Num(7)]}

PageChoices ==
    {q \in PageQueries :
        \A f \in {"vehicleType", "preCrash", "borough"} :
            IsNull(q[f]) \/ (\E k \in 1..Len(byCount(rows, f)) : Str(byCount(rows, f)[k]) = q[f])}

\* debounce(fn, 150) (line 203); the model's clock advances by TickMs
WaitMs == 150
TickMs == 50
MaxTicks == 6
MaxResizes == 2

\* the page is opened: the data is being loaded (line 111), onResize is
\* registered (line 205)
InitPage ==
    /\ rows \in PageRowSeqs
    /\ dimension = 1024
    /\ pc = "loading"
    /\ estModel = Null
    /\ NoTrainLocals
    /\ NoChainLocals
    /\ NoHashCall
    /\ NoLeaflet
    /\ NoFeatureCall
    /\ estimatorOutput \in {Null, Str("")}
    /\ chainsContainer \in {Null, Str("")}
    /\ NoTimers
    /\ ret = NoReturn

\* the data is loaded: analysisData = analysisRows (line 119); the rest of
\* init runs without a handler or timer in between
Load ==
    /\ pc = "loading"
    /\ pc' = "init"
    /\ UNCHANGED <<hashVars, query, leafletVars, viewVars, rows, dimension, estModel, trainVars, chainVars, ret>>

\* analysisData (line 63): null until the data is loaded
AnalysisLoaded == pc # "loading"

\* initEstimator(analysisData) (lines 158, 572-581)
InitEstimator ==
    /\ pc = "init"
    /\ pc' = "init chains"
    /\ estModel' = trainEstimator(rows, dimension)
    /\ estimatorOutput' = renderEstimatorPrediction(estimatorOutput, estModel', EmptySel)
    /\ UNCHANGED <<hashVars, query, leafletVars, chainsContainer, timerVars, rows, dimension, trainVars, chainVars, ret>>

\* line 160
InitChains ==
    /\ pc = "init chains"
    /\ pc' = "ready"
    /\ chainsContainer' = IF ~IsNull(estModel)
                          THEN renderRiskChains(chainsContainer, rows, estModel)
                          ELSE chainsContainer
    /\ UNCHANGED <<hashVars, query, leafletVars, estimatorOutput, timerVars, rows, dimension, estModel, trainVars, chainVars, ret>>

\* a change event of one of the selects (line 577)
EstimatorChange(choice) ==
    /\ pc = "ready"
    /\ estimatorOutput' = renderEstimatorPrediction(estimatorOutput, estModel, choice)
    /\ UNCHANGED <<hashVars, query, leafletVars, chainsContainer, timerVars, rows, dimension, estModel, pc, trainVars, chainVars, ret>>

\* mutant: the pending timer is not cancelled
clearNothing(ts, tid) == ts

\* clearTimeout(t) (line 182): no effect when t is not a pending timer
ClearTimeout(ts, tid) == {x \in ts : Num(x.id) # tid}

\* a resize event: the function debounce returns runs (lines 181-184)
Resize ==
    /\ pc \in {"loading", "ready"}
    /\ resizes < MaxResizes
    /\ resizes' = resizes + 1
    /\ lastResize' = Num(now)
    /\ timers' = ClearTimeout(timers, debounceT) \cup {[id |-> resizes + 1, due |-> now + WaitMs]}
    /\ debounceT' = Num(resizes + 1)
    /\ UNCHANGED <<hashVars, query, leafletVars, estimatorOutput, chainsContainer, now, rows, dimension, estModel, pc, trainVars, chainVars, ret>>

\* time passes
Tick ==
    /\ pc \in {"loading", "ready"}
    /\ now < MaxTicks * TickMs
    /\ now' = now + TickMs
    /\ UNCHANGED <<hashVars, query, leafletVars, estimatorOutput, chainsContainer, timers, debounceT, resizes, lastResize, rows, dimension, estModel, pc, trainVars, chainVars, ret>>

\* analysisData && estModel (line 202)
RebuildsChains == AnalysisLoaded /\ ~IsNull(estModel)

\* a timer is due: the body of onResize runs (lines 187-203); of the views
\* it renders again, the model follows the risk chains
TimerFires ==
    /\ pc \in {"loading", "ready"}
    /\ \E x \in timers :
          /\ now >= x.due
          /\ timers' = timers \ {x}
    /\ chainsContainer' = IF RebuildsChains
                          THEN renderRiskChains(chainsContainer, rows, estModel)
                          ELSE chainsContainer
    /\ ret' = [op |-> "rerender", at |-> now, chains |-> RebuildsChains]
    /\ UNCHANGED <<hashVars, query, leafletVars, estimatorOutput, now, debounceT, resizes, lastResize, rows, dimension, estModel, pc, trainVars, chainVars>>

NextPage ==
    \/ Load
    \/ InitEstimator
    \/ InitChains
    \/ \E choice \in PageChoices : EstimatorChange(choice)
    \/ Resize
    \/ Tick
    \/ TimerFires

SpecPage == InitPage /\ [][NextPage]_vars

\* C21: after init on an empty record set both views that exist show a
\* message that there is not enough data: neither is blank or loading
C21_NoDataIsVisible ==
    pc = "ready" /\ rows = <<>> =>
        /\ IsNull(estModel)
        /\ ~IsNull(estimatorOutput) => estimatorOutput = NotEnoughDataText
        /\ ~IsNull(chainsContainer) => chainsContainer = NotEnoughDataText

(***************************************************************************)
(* supportCount on its own: the selections it is applied to                *)
(***************************************************************************)
\* the selections greedyChain builds: a category field is null or a label
\* of its domain, hour and dow are null or a number of theirs
SupportSels ==
    { [vehicleType |-> veh, preCrash |-> act, borough |-> bor, hour |-> h, dow |-> dw] :
        veh \in {Null, Str("Sedan"), Str("Truck")},
        act \in {Null, Str("Turn")},
        bor \in {Null, Str("Bronx")},
        h \in {Null, Num(0), Num(7)}, dw \in {Null, Num(0), Num(3)} }

InitSupport ==
    /\ rows \in UNION {[1..n -> RecordPool] : n \in 0..MaxRows}
    /\ query \in SupportSels
    /\ dimension = 1024
    /\ pc = "idle"
    /\ estModel = Null
    /\ NoTrainLocals
    /\ NoChainLocals
    /\ NoHashCall
    /\ NoLeaflet
    /\ NoView
    /\ ret = NoReturn

\* a call supportCount(rows, trial) (line 647)
SupportCall ==
    /\ pc = "idle"
    /\ pc' = "returned"
    /\ ret' = [op |-> "support", val |-> supportCount(rows, query)]
    /\ UNCHANGED <<hashVars, query, leafletVars, viewVars, rows, dimension, estModel, trainVars, chainVars>>

NextSupport == SupportCall

SpecSupport == InitSupport /\ [][NextSupport]_vars

\* the records that agree with the selection on every field it fixes
AgreeingRecords(rs, s) ==
    {k \in 1..Len(rs) :
        \A n \in 1..Len(Fields) : s[Fields[n]] = Null \/ rs[k][Fields[n]] = s[Fields[n]]}

\* C22: supportCount(records, sel) is the number of records that equal sel
\* on every field sel fixes (a null field of sel constrains nothing, hour 0
\* and dow 0 do, a record null on a fixed field is not counted)
C22_SupportCountsAgreeing ==
    ret.op = "support" =>
        /\ ret.val = Cardinality(AgreeingRecords(rows, query))
        /\ query = EmptySel => ret.val = Len(rows)
        /\ \A k \in 1..Len(rows) :
              Matches(rows[k], query) =>
                  \A n \in 1..Len(Fields) :
                      query[Fields[n]] # Null => rows[k][Fields[n]] # Null

\* a selection that fixes hour 0 and a vehicle type is counted over records
\* of which one agrees, one has another hour and one has no vehicle type
C22_Witness ==
    /\ ret.op = "support"
    /\ query.hour = Num(0)
    /\ query.vehicleType = Str("Sedan")
    /\ ret.val = 1
    /\ \E k \in 1..Len(rows) : rows[k].hour = Num(7) /\ rows[k].vehicleType = Str("Sedan")
    /\ \E k \in 1..Len(rows) : rows[k].vehicleType = Null

\* the update of record k (1-based) in epoch e, from the bias and weights
\* the update before has left, with the rate of the epoch
StepOfEpoch(e, k) ==
    LET idx == featureIndices(rows[k], dimension)
        lr == lr0 \div (1 + e)
        g == FSub(sigmoid(Dot(b, w, idx)), IF rows[k].injured THEN ONE ELSE 0)
    IN /\ b' = FSub(b, FMul(lr, g))
       /\ \A j \in idx : w'[j] = FSub(FMul(w[j], ONE - FMul(lr, lambda)), FMul(lr, g))

\* C23: trainEstimator makes exactly epochs * N updates: record by record in
\* the order given, epoch after epoch, each from the bias and weights of the
\* update before, with the rate lr0 / (1 + e) in epoch e; it returns after the
\* last update of the last epoch, and what it returns is the result of
\* these epochs * N updates
C23_UpdatesInOrder ==
    /\ [](pc = "train" =>
            /\ ep \in 0..epochs
            /\ i \in 0..(Len(rows) - 1)
            /\ ep = epochs => i = 0)
    /\ [][pc = "idle" /\ pc' = "train" => ep' = 0 /\ i' = 0]_vars
    /\ [][pc = "train" /\ pc' = "train" =>
            /\ ep < epochs
            /\ StepOfEpoch(ep, i + 1)
            /\ ep' * Len(rows) + i' = ep * Len(rows) + i + 1]_vars
    /\ [][pc = "train" /\ pc' # "train" =>
            /\ ep * Len(rows) + i = epochs * Len(rows)
            /\ estModel' = trainEstimator(rows, dimension)]_vars

\* the last update of the second epoch over three records is the next step
C23_Witness ==
    /\ pc = "train"
    /\ Len(rows) = 3
    /\ ep = 1
    /\ i = 2
    /\ b # InitialBias(BaseRate(rows))

\* the largest absolute value of a log-odds of two positive quantities of
\* at most 1 + epsilon: ln((1 + epsilon) / epsilon) < 14
MaxLogOdds == 14 * ONE

\* C24: for every record set that is not empty, also when all or none of the
\* records is injured, the numerator baseRate + epsilon and the denominator
\* 1 - baseRate + epsilon of the log-odds are strictly positive, and the
\* bias the training starts from is a finite number
C24_InitialBiasFinite ==
    pc = "train" =>
        /\ BaseRate(rows) + Epsilon > 0
        /\ ONE - BaseRate(rows) + Epsilon > 0
        /\ (ep = 0 /\ i = 0) => (b # NaN /\ b \in (-MaxLogOdds)..MaxLogOdds)

\* training starts on two records that are both injured, or both not
C24_Witness ==
    /\ pc = "train"
    /\ ep = 0
    /\ i = 0
    /\ Len(rows) = 2
    /\ BaseRate(rows) \in {0, ONE}
    /\ b # 0
    /\ b # NaN

\* the selection made of the assignments of the steps 2..k of the chain ch
RECURSIVE SelUpTo(_, _)
SelUpTo(ch, k) ==
    IF k <= 1 THEN EmptySel
    ELSE [SelUpTo(ch, k - 1) EXCEPT ![ch[k].field.v] = ch[k].value]

\* C25: in every chain greedyChain returns for a model, each step records
\* the probability predictEstimator gives and the support supportCount gives
\* for the selection made of the assignments of the steps up to and
\* including it (the empty selection for the Start step)
C25_StepsRecordCurrentValues ==
    ret.op = "chain" =>
        \A k \in 1..Len(ret.val) :
            /\ ret.val[k].n = supportCount(rows, SelUpTo(ret.val, k))
            /\ ~IsNull(estModel) =>
                  Num(ret.val[k].p) = predictEstimator(estModel, SelUpTo(ret.val, k))

\* a chain of a Start step and at least two further steps whose
\* probabilities and supports differ
C25_Witness ==
    /\ ret.op = "chain"
    /\ ~IsNull(estModel)
    /\ Len(ret.val) >= 3
    /\ ret.val[3].p # ret.val[2].p
    /\ ret.val[2].p # ret.val[1].p
    /\ ret.val[3].n < ret.val[1].n

\* C26: support never grows along a chain greedyChain returns: the support
\* of each step is at most that of the step before it, the Start step
\* having the number of records
C26_SupportNeverGrows ==
    ret.op = "chain" =>
        /\ ret.val[1].n = Len(rows)
        /\ \A k \in 2..Len(ret.val) : ret.val[k].n <= ret.val[k - 1].n

\* a chain whose support shrinks at one step and stays at another
C26_Witness ==
    /\ ret.op = "chain"
    /\ \E k \in 2..Len(ret.val) : ret.val[k].n < ret.val[k - 1].n
    /\ \E k \in 2..Len(ret.val) : ret.val[k].n = ret.val[k - 1].n

\* the buckets that are active in some record
ActiveSomewhere(rs, dim) == UNION {featureIndices(rs[k], dim) : k \in 1..Len(rs)}

\* C27: an update of the training loop changes, besides the bias, only the
\* weights at the active feature indices of its record; so in the model
\* trainEstimator returns, every bucket that is active in no record holds 0
C27_OnlyActiveWeightsChange ==
    /\ [][TrainStep =>
            \A j \in DOMAIN w \ featureIndices(rows[i + 1], dimension) : w'[j] = w[j]]_vars
    /\ [](ret.op = "train" /\ ~IsNull(ret.val) =>
            \A j \in DOMAIN ret.val.w \ ActiveSomewhere(rows, dimension) : ret.val.w[j] = 0)

\* a model of four buckets is returned: one is active in no record, another
\* has a weight that training has moved
C27_Witness ==
    /\ ret.op = "train"
    /\ ~IsNull(ret.val)
    /\ ret.val.D = 4
    /\ Len(rows) >= 2
    /\ DOMAIN ret.val.w \ ActiveSomewhere(rows, dimension) # {}
    /\ \E j \in ActiveSomewhere(rows, dimension) : ret.val.w[j] # 0

\* values of the fields of a record other than the five of a choice
OtherFields ==
    {[injured |-> inj, severity |-> sv, injuredCount |-> ic] :
        inj \in BOOLEAN, sv \in {0, 2}, ic \in {0, 3}}

\* C28: the feature set and the prediction depend on vehicleType, preCrash,
\* borough, hour and dow only: a query and a record that agree on the five
\* fields, whatever the record's injured, severity and injuredCount, have
\* the same featureIndices and the same prediction under the same model
C28_OnlyFiveFieldsMatter ==
    ret.op = "predict" /\ ~IsNull(estModel) =>
        /\ \A x \in OtherFields :
              /\ featureIndices(x @@ ret.choice, estModel.D)
                    = featureIndices(ret.choice, estModel.D)
              /\ predictEstimator(estModel, x @@ ret.choice) = ret.val
        /\ \A k \in 1..Len(rows) :
              featureIndices(rows[k], estModel.D)
                  = featureIndices([f \in DOMAIN EmptySel |-> rows[k][f]], estModel.D)

\* a trained model answers a query that agrees on the five fields with two
\* records of different labels
C28_Witness ==
    /\ ret.op = "predict"
    /\ ~IsNull(estModel)
    /\ ret.choice.vehicleType = Str("Sedan")
    /\ \E k1, k2 \in 1..Len(rows) :
          /\ rows[k1].injured /\ ~rows[k2].injured
          /\ \A f \in DOMAIN EmptySel : rows[k1][f] = ret.choice[f] /\ rows[k2][f] = ret.choice[f]

\* a step in which a due timer runs the body of onResize
RenderStep == timers' # timers /\ resizes' = resizes

\* a step in which a resize event is handled
ResizeStep == resizes' = resizes + 1

\* C29: the body of the debounced resize handler runs only when 150 ms have
\* passed since the latest resize event; every resize event cancels the
\* pending timer and starts a new one, so at most one timer is pending; a
\* pending timer stays until it fires or is replaced, and after it has fired
\* none is pending, so a burst of events gives one re-render after its last
\* event; the re-render builds the risk chains only if the data is loaded
\* and the estimator model is not null
C29_DebouncedResize ==
    /\ [](Cardinality(timers) <= 1)
    /\ [][ResizeStep => timers' = {[id |-> resizes', due |-> now + WaitMs]}]_vars
    /\ [][RenderStep =>
            /\ lastResize # Null
            /\ now - lastResize.v >= WaitMs
            /\ timers' = {}
            /\ ret'.op = "rerender"]_vars
    /\ [][timers # {} /\ ~RenderStep => timers' # {}]_vars
    /\ [][RenderStep /\ (ret'.chains \/ chainsContainer' # chainsContainer) =>
            AnalysisLoaded /\ ~IsNull(estModel)]_vars

\* two resize events at most 50 ms apart have been followed by one
\* re-render, 150 ms after the second, which has built the chains again
C29_Witness ==
    /\ ret.op = "rerender"
    /\ ret.chains
    /\ resizes = 2
    /\ lastResize = Num(TickMs)
    /\ ret.at = TickMs + WaitMs
    /\ debounceT = Num(2)
    /\ timers = {}
    /\ ~IsNull(chainsContainer)
    /\ chainsContainer # NotEnoughDataText
    /\ chainsContainer # Str("")

(***************************************************************************)
(* leafletMap.js: renderLeafletNYC                                         *)
(***************************************************************************)
MaxCalls == 4

\* containerId.replace('#', '') (line 9) on the spellings of the model
NormId(cid) ==
    CASE cid = "#leaflet-map" -> "leaflet-map"
      [] cid = "#map" -> "map"
      [] OTHER -> cid

ContainerSpellings == {"leaflet-map", "#leaflet-map", "map"}

\* a point with coordinates, and one without (lines 87-88)
GoodPoint == [lat |-> 40, lon |-> -74]
BadPoint == [lat |-> NaN, lon |-> -74]

\* the values of the argument points: null, and lists of points
List(elems) == [t |-> "list", v |-> elems]

PointLists ==
    {Null, List(<<>>), List(<<GoodPoint>>), List(<<BadPoint>>), List(<<GoodPoint, BadPoint>>)}

\* !points || points.length === 0 (line 58)
NoPoints(pts) == pts = Null \/ Len(pts.v) = 0

\* the truthiness test of lines 27, 54, 61, 123 on an entry of a Map
IsObject(x) == x # Undefined /\ x # Null

\* mutant: the previous layer stays on the map
keepLayer(layers, prev) == layers

\* map.removeLayer(prev) (line 55)
RemoveLayer(layers, prev) == layers \ {prev}

InitLeaflet ==
    /\ NoLeaflet
    /\ rows = <<>>
    /\ dimension = 1024
    /\ pc = "idle"
    /\ estModel = Null
    /\ NoTrainLocals
    /\ NoChainLocals
    /\ NoHashCall
    /\ NoFeatureCall
    /\ NoView
    /\ ret = NoReturn

\* a call renderLeafletNYC(containerId, points, {injuryMode}) for a
\* container that exists (lines 8-155)
RenderLeaflet(cid, pts, inj) ==
    LET id == NormId(cid)
        fresh == calls + 1
        prev == dotLayers[id]
        kept == IF IsObject(prev) THEN RemoveLayer(mapLayers[id], prev) ELSE mapLayers[id]
        prevLegend == legends[id]
        controls == IF IsObject(prevLegend) THEN mapControls[id] \ {prevLegend}
                    ELSE mapControls[id]
        legend == IF IsObject(prevLegend) THEN Null ELSE prevLegend
        group == [t |-> "layer", id |-> fresh,
                  markers |-> IF NoPoints(pts) THEN 0
                              ELSE Cardinality({k \in 1..Len(pts.v) :
                                                  pts.v[k].lat # NaN /\ pts.v[k].lon # NaN})]
        newLegend == [t |-> "legend", id |-> fresh]
    IN /\ calls < MaxCalls
       /\ calls' = fresh
       /\ lastCall' = [lastCall EXCEPT ![id] = [points |-> pts, injuryMode |-> inj]]
       /\ IF IsObject(maps[id])
          THEN UNCHANGED <<maps, mapsCreated>>
          ELSE /\ maps' = [maps EXCEPT ![id] = [t |-> "map", id |-> fresh]]
               /\ mapsCreated' = [mapsCreated EXCEPT
                                    ![id] = @ \cup {[t |-> "map", id |-> fresh]}]
       /\ IF NoPoints(pts)
          THEN /\ mapLayers' = [mapLayers EXCEPT ![id] = kept]
               /\ dotLayers' = [dotLayers EXCEPT ![id] = Null]
               /\ mapControls' = [mapControls EXCEPT ![id] = controls]
               /\ legends' = [legends EXCEPT ![id] = legend]
          ELSE /\ mapLayers' = [mapLayers EXCEPT ![id] = kept \cup {group}]
               /\ dotLayers' = [dotLayers EXCEPT ![id] = group]
               /\ mapControls' = [mapControls EXCEPT
                                    ![id] = IF inj THEN controls \cup {newLegend} ELSE controls]
               /\ legends' = [legends EXCEPT ![id] = IF inj THEN newLegend ELSE legend]
       /\ UNCHANGED <<hashVars, query, viewVars, rows, dimension, estModel, pc, trainVars, chainVars, ret>>

NextLeaflet ==
    \E cid \in ContainerSpellings, pts \in PointLists, inj \in BOOLEAN :
        RenderLeaflet(cid, pts, inj)

SpecLeaflet == InitLeaflet /\ [][NextLeaflet]_vars

\* C30: after any calls of renderLeafletNYC for a container id, one map
\* instance has been created for the id, on the first call, and is the one
\* in use; at most one dot layer is attached to it, and one is attached iff
\* the latest call had a point list that is not empty; at most one legend is
\* attached, and one is attached iff the latest call had such a list and
\* injuryMode true
C30_OneMapLayerLegend ==
    \A id \in ContainerIds :
        IF lastCall[id] = Null
        THEN mapsCreated[id] = {} /\ mapLayers[id] = {} /\ mapControls[id] = {}
        ELSE /\ mapsCreated[id] = {maps[id]}
             /\ Cardinality(mapLayers[id]) <= 1
             /\ mapLayers[id] # {} <=> ~NoPoints(lastCall[id].points)
             /\ mapLayers[id] # {} => mapLayers[id] = {dotLayers[id]}
             /\ Cardinality(mapControls[id]) <= 1
             /\ mapControls[id] # {} <=>
                    (~NoPoints(lastCall[id].points) /\ lastCall[id].injuryMode)
             /\ mapControls[id] # {} => mapControls[id] = {legends[id]}

\* four calls for one container: the map is the one the first call created,
\* the layer and the legend attached are those of the fourth
C30_Witness ==
    /\ calls = 4
    /\ maps["leaflet-map"] = [t |-> "map", id |-> 1]
    /\ dotLayers["leaflet-map"] = [t |-> "layer", id |-> 4, markers |-> 1]
    /\ mapLayers["leaflet-map"] = {dotLayers["leaflet-map"]}
    /\ mapControls["leaflet-map"] = {[t |-> "legend", id |-> 4]}
    /\ lastCall["map"] = Null

====
